---------------------------- MODULE Spec2Model ----------------------------
(***************************************************************************)
(* nordstream2: a command-line front end that compiles one YARA rule file  *)
(* and scans one file with it (src/src/ns2/nordstream.py).                 *)
(*                                                                         *)
(* Two specifications share the definitions of the YaraScanner methods:    *)
(*   Spec     one execution of YaraScannerCLI.run()                        *)
(*   SpecApi  a client that owns one YaraScanner and calls its methods in  *)
(*            any order, while the two files may be rewritten in between   *)
(* The file system does not change during run(): the program is            *)
(* single-threaded and never writes the files it is given.                 *)
(***************************************************************************)
EXTENDS Integers, Sequences, FiniteSets

VARIABLES
    dirs,           \* which candidate directories hold a "yara_rules" directory
    args,           \* the parsed command line: args.rule, args.file
    fsRule,         \* what the file system holds at the resolved rule path
    fsScan,         \* what the file system holds at the path of the file to scan
    scanner,        \* the YaraScanner: rule_path, file_to_scan, compiled_rule
    pc,             \* position inside run(), or "api" for the method client
    calls,          \* the YaraScanner methods run() has called, in order, each
                    \* with the exception it raised
    log,            \* records emitted through the logger (by run(), or by the last call)
    outcome,        \* how run() ended: "running", "returned" or "raised" (with its exception)
    lastCall,       \* the most recent method call since a file was last rewritten
    prevCall,       \* the method call before it (name, exception, value), likewise
    everCompiled    \* some compile_rule call has returned normally

vars == <<dirs, args, fsRule, fsScan, scanner, pc, calls, log, outcome, lastCall,
          prevCall, everCompiled>>

----------------------------------------------------------------------------
(* Bounds of the model.                                                    *)

MaxBufLen == 2      \* longest scanned buffer, in bytes
MaxRules == 2       \* most rules in one rule file

Bytes == {0, 1}

RECURSIVE SeqsUpTo(_, _)
SeqsUpTo(S, n) ==
    IF n = 0 THEN {<<>>}
    ELSE LET shorter == SeqsUpTo(S, n - 1)
         IN  shorter \cup {Append(s, x) : s \in {t \in shorter : Len(t) = n - 1}, x \in S}

Buffers == SeqsUpTo(Bytes, MaxBufLen)

----------------------------------------------------------------------------
(* Values.                                                                 *)

None == [kind |-> "None"]
NoExc == [type |-> "none", msg |-> ""]
Exc(t, m) == [type |-> t, msg |-> m]
Entry(l, t) == [level |-> l, text |-> t]

(* A rule: an identifier, its string definitions (here at most one, $a)    *)
(* and a condition over them.                                              *)
Rule(n, s, c) == [name |-> n, strings |-> s, cond |-> c]

RuleCatalogue ==
    << Rule("always", <<>>,      [op |-> "true", n |-> 0]),
       Rule("has_a",  <<<<1>>>>, [op |-> "matched", n |-> 0]),
       Rule("no_a",   <<<<1>>>>, [op |-> "not_matched", n |-> 0]),
       Rule("a_at_0", <<<<0>>>>, [op |-> "at", n |-> 0]) >>

(* The rules of the catalogue picked by the index set S, in its order.     *)
RECURSIVE Pick(_, _)
Pick(S, i) ==
    IF i > Len(RuleCatalogue) THEN <<>>
    ELSE (IF i \in S THEN <<RuleCatalogue[i]>> ELSE <<>>) \o Pick(S, i + 1)

RuleSets == {Pick(S, 1) : S \in {T \in SUBSET (1..Len(RuleCatalogue)) : Cardinality(T) <= MaxRules}}

(* The text of a rule file: it parses to a sequence of rules, or not at all. *)
Malformed == [kind |-> "malformed"]
Source(rs) == [kind |-> "source", rules |-> rs]
RuleSources == {Malformed} \cup {Source(rs) : rs \in RuleSets}

(* What a path names: nothing, a directory, a regular file this process   *)
(* may not read (its content is never seen), or a regular file with its    *)
(* content.                                                                *)
Missing == [kind |-> "missing"]
Directory == [kind |-> "dir"]
Unreadable == [kind |-> "file", readable |-> FALSE]
File(c) == [kind |-> "file", readable |-> TRUE, content |-> c]

RuleFileStates == {Missing, Directory, Unreadable} \cup {File(c) : c \in RuleSources}
ScanFileStates == {Missing, Directory, Unreadable} \cup {File(b) : b \in Buffers}

----------------------------------------------------------------------------
(* The YARA library behind yara.compile and Rules.match.  It is not part   *)
(* of this repository; it is modelled from the specification's Scan Engine *)
(* (spec.md, sections 4.2 and 4.3).                                        *)

(* 4.3 step 1: every occurrence of a literal pattern, as 0-based offsets.  *)
Occurrences(pat, buf) ==
    {i \in 0..(Len(buf) - Len(pat)) : SubSeq(buf, i + 1, i + Len(pat)) = pat}

(* 4.3 step 2: the evaluation context of a rule, the offsets of $a.        *)
Context(rule, buf) ==
    IF rule.strings = <<>> THEN {} ELSE Occurrences(rule.strings[1], buf)

Least(S) == CHOOSE x \in S : \A y \in S : x <= y

(* 4.3 step 3: a pattern with zero matches is boolean false; @a with zero  *)
(* matches is undefined, and the rule then counts as not matched.          *)
EvalCondition(cond, occ) ==
    CASE cond.op = "true"        -> "true"
      [] cond.op = "matched"     -> IF occ # {} THEN "true" ELSE "false"
      [] cond.op = "not_matched" -> IF occ = {} THEN "true" ELSE "false"
      [] cond.op = "at"          -> IF occ = {} THEN "undefined"
                                    ELSE IF Least(occ) = cond.n THEN "true" ELSE "false"

RECURSIVE Ascending(_)
Ascending(S) ==
    IF S = {} THEN <<>> ELSE <<Least(S)>> \o Ascending(S \ {Least(S)})

Match(rule, buf) == [rule |-> rule.name, offsets |-> Ascending(Context(rule, buf))]

(* 4.3 step 4 and ordering: the rules whose condition is true, in the rule *)
(* set's order, each with its occurrences by ascending offset.             *)
RECURSIVE ScanRules(_, _)
ScanRules(rules, buf) ==
    IF rules = <<>> THEN <<>>
    ELSE LET r == Head(rules)
             rest == ScanRules(Tail(rules), buf)
         IN  IF EvalCondition(r.cond, Context(r, buf)) = "true"
             THEN <<Match(r, buf)>> \o rest
             ELSE rest

(* yara.compile(filepath=...): the compiled rules, or yara.Error when the  *)
(* file cannot be opened, or yara.SyntaxError when its text does not parse. *)
YaraCompile(f) ==
    IF f.kind # "file" \/ ~f.readable
    THEN [exc |-> Exc("yara.Error", "could not open file"), rules |-> None]
    ELSE IF f.content.kind = "malformed"
    THEN [exc |-> Exc("yara.SyntaxError", "syntax error"), rules |-> None]
    ELSE [exc |-> NoExc, rules |-> [kind |-> "Rules", rules |-> f.content.rules]]

(* Rules.match(filepath): the matches, or yara.Error when the file cannot  *)
(* be opened.                                                              *)
YaraMatch(compiled, f) ==
    IF f.kind # "file" \/ ~f.readable
    THEN [exc |-> Exc("yara.Error", "could not open file"), ret |-> None]
    ELSE [exc |-> NoExc,
          ret |-> [kind |-> "list", items |-> ScanRules(compiled.rules, f.content)]]

----------------------------------------------------------------------------
(* class YaraScanner.  A method is an operator from the object and the     *)
(* files it reads to: the exception it raises (NoExc when it returns), the *)
(* value it returns, the records it logs and the object after the call.    *)

YaraScanner(rule_path, file_to_scan) ==
    [rule_path |-> rule_path, file_to_scan |-> file_to_scan, compiled_rule |-> None]

isfile(f) == f.kind = "file"

(* Variant: only the rule path is checked.                                 *)
validate_paths_rule_only(self, fr, fs) ==
    IF ~isfile(fr)
    THEN [exc |-> Exc("FileNotFoundError", "Rule file not found"), ret |-> None,
          logs |-> <<>>, self |-> self]
    ELSE [exc |-> NoExc, ret |-> None, logs |-> <<>>, self |-> self]

(* Variant: the file to scan is checked before the rule path.              *)
validate_paths_scan_first(self, fr, fs) ==
    IF ~isfile(fs)
    THEN [exc |-> Exc("FileNotFoundError", "File to scan not found"), ret |-> None,
          logs |-> <<Entry("ERROR", "File to scan not found")>>, self |-> self]
    ELSE IF ~isfile(fr)
    THEN [exc |-> Exc("FileNotFoundError", "Rule file not found"), ret |-> None,
          logs |-> <<>>, self |-> self]
    ELSE [exc |-> NoExc, ret |-> None, logs |-> <<>>, self |-> self]

validate_paths(self, fr, fs) ==
    IF ~isfile(fr)
    THEN [exc |-> Exc("FileNotFoundError", "Rule file not found"), ret |-> None,
          logs |-> <<>>, self |-> self]
    ELSE IF ~isfile(fs)
    THEN [exc |-> Exc("FileNotFoundError", "File to scan not found"), ret |-> None,
          logs |-> <<Entry("ERROR", "File to scan not found")>>, self |-> self]
    ELSE [exc |-> NoExc, ret |-> None, logs |-> <<>>, self |-> self]

(* Variant: compiled_rule is cleared before the compiler is called, so a   *)
(* failed compilation loses the rules compiled earlier.                    *)
compile_rule_resets(self, fr) ==
    LET r == YaraCompile(fr)
        info == Entry("INFO", "Compiling YARA rule from")
    IN  IF r.exc = NoExc
        THEN [exc |-> NoExc, ret |-> None, logs |-> <<info>>,
              self |-> [self EXCEPT !.compiled_rule = r.rules]]
        ELSE [exc |-> r.exc, ret |-> None,
              logs |-> <<info, Entry("ERROR", IF r.exc.type = "yara.SyntaxError"
                                              THEN "Syntax Error in YARA rule"
                                              ELSE "Failed to compile YARA rule")>>,
              self |-> [self EXCEPT !.compiled_rule = None]]

compile_rule(self, fr) ==
    LET r == YaraCompile(fr)
        info == Entry("INFO", "Compiling YARA rule from")
    IN  IF r.exc = NoExc
        THEN [exc |-> NoExc, ret |-> None, logs |-> <<info>>,
              self |-> [self EXCEPT !.compiled_rule = r.rules]]
        ELSE IF r.exc.type = "yara.SyntaxError"
        THEN [exc |-> r.exc, ret |-> None,
              logs |-> <<info, Entry("ERROR", "Syntax Error in YARA rule")>>,
              self |-> self]
        ELSE [exc |-> r.exc, ret |-> None,
              logs |-> <<info, Entry("ERROR", "Failed to compile YARA rule")>>,
              self |-> self]

ScanFailure(self, e) ==
    [exc |-> e, ret |-> None,
     logs |-> <<Entry("INFO", "Scanning file"),
                Entry("ERROR", IF e.type = "AttributeError"
                               THEN "Unexpected error while scanning"
                               ELSE "YARA Error while scanning")>>,
     self |-> self]

NoRules == Exc("AttributeError", "'NoneType' object has no attribute 'match'")

HasEvidence(m) == m.offsets # <<>>

(* Variant: an empty file is not handed to the library; the result is an   *)
(* empty list.                                                             *)
scan_file_skips_empty(self, fs) ==
    IF self.compiled_rule = None THEN ScanFailure(self, NoRules)
    ELSE LET r == YaraMatch(self.compiled_rule, fs)
         IN  IF r.exc # NoExc THEN ScanFailure(self, r.exc)
             ELSE [exc |-> NoExc,
                   ret |-> IF fs.content = <<>> THEN [kind |-> "list", items |-> <<>>]
                           ELSE r.ret,
                   logs |-> <<Entry("INFO", "Scanning file")>>, self |-> self]

(* Variant: matches without any matched string are dropped from the result. *)
scan_file_evidence_only(self, fs) ==
    IF self.compiled_rule = None THEN ScanFailure(self, NoRules)
    ELSE LET r == YaraMatch(self.compiled_rule, fs)
         IN  IF r.exc # NoExc THEN ScanFailure(self, r.exc)
             ELSE [exc |-> NoExc,
                   ret |-> [kind |-> "list", items |-> SelectSeq(r.ret.items, HasEvidence)],
                   logs |-> <<Entry("INFO", "Scanning file")>>, self |-> self]

(* Variant: the compiled rules are released once a scan has used them.     *)
scan_file_releases_rules(self, fs) ==
    IF self.compiled_rule = None THEN ScanFailure(self, NoRules)
    ELSE LET r == YaraMatch(self.compiled_rule, fs)
         IN  IF r.exc # NoExc THEN ScanFailure(self, r.exc)
             ELSE [exc |-> NoExc, ret |-> r.ret,
                   logs |-> <<Entry("INFO", "Scanning file")>>,
                   self |-> [self EXCEPT !.compiled_rule = None]]

scan_file(self, fs) ==
    LET info == Entry("INFO", "Scanning file")
    IN  IF self.compiled_rule = None
        THEN [exc |-> Exc("AttributeError", "'NoneType' object has no attribute 'match'"),
              ret |-> None,
              logs |-> <<info, Entry("ERROR", "Unexpected error while scanning")>>,
              self |-> self]
        ELSE LET r == YaraMatch(self.compiled_rule, fs)
             IN  IF r.exc = NoExc
                 THEN [exc |-> NoExc, ret |-> r.ret, logs |-> <<info>>, self |-> self]
                 ELSE [exc |-> r.exc, ret |-> None,
                       logs |-> <<info, Entry("ERROR", "YARA Error while scanning")>>,
                       self |-> self]

----------------------------------------------------------------------------
(* class Config and YaraScannerCLI.get_rule_path: how run() resolves the   *)
(* --rule argument to a path.                                              *)

Candidates == {"cwd", "parent", "grandparent"}

get_rule_base(d) ==
    IF "cwd" \in d THEN "yara_rules"
    ELSE IF "parent" \in d THEN "cwd/../yara_rules"
    ELSE IF "grandparent" \in d THEN "cwd/../../yara_rules"
    ELSE ""

Suffixes == {"", ".yar", ".yara"}

RuleArgs == [abs : BOOLEAN, stem : {"rule"}, suffix : Suffixes]

Path(base, name) == [base |-> base, name |-> name]

get_rule_path(rule_file, d) ==
    LET named == IF rule_file.suffix \notin {".yar", ".yara"}
                 THEN [rule_file EXCEPT !.suffix = ".yar"]
                 ELSE rule_file
    IN  IF named.abs
        THEN Path("", named)
        ELSE Path(get_rule_base(d), named)

----------------------------------------------------------------------------
(* Bookkeeping of the method calls and of how run() ends.                  *)

NoScanner == [kind |-> "unset"]

NoCall == [op |-> "none", exc |-> NoExc, ret |-> None, before |-> NoScanner,
           after |-> NoScanner, logs |-> <<>>]
Call(op, before, r) == [op |-> op, exc |-> r.exc, ret |-> r.ret, before |-> before,
                        after |-> r.self, logs |-> r.logs]
NoPrev == [op |-> "none", exc |-> NoExc, ret |-> None]
Prev(c) == [op |-> c.op, exc |-> c.exc, ret |-> c.ret]

Running == [status |-> "running", exc |-> NoExc]
Returned == [status |-> "returned", exc |-> NoExc]
Raised(e) == [status |-> "raised", exc |-> e]

(* The except clauses of run().  The FileNotFoundError clause logs the     *)
(* exception and run() returns.  The yara.SyntaxError clause formats the   *)
(* name e, which only the other clause binds: reading it raises            *)
(* UnboundLocalError before anything is logged.  Any other exception       *)
(* leaves run() unhandled.                                                 *)
run_except(e) ==
    IF e.type = "FileNotFoundError"
    THEN [outcome |-> Returned, logs |-> <<Entry("ERROR", e.msg)>>]
    ELSE IF e.type = "yara.SyntaxError"
    THEN [outcome |-> Raised(Exc("UnboundLocalError", "e")), logs |-> <<>>]
    ELSE [outcome |-> Raised(e), logs |-> <<>>]

(* Variant: the test of the report is inverted.                            *)
run_report_inverted(matches) ==
    IF ~(matches.kind = "list" /\ matches.items # <<>>)
    THEN <<Entry("INFO", "[SUCCESS] YARA rule matched!"), Entry("INFO", "[SUCCESS] matches")>>
    ELSE <<Entry("WARNING", "No matches found.")>>

(* if matches: ... else: ...  at the end of the try block.                 *)
run_report(matches) ==
    IF matches.kind = "list" /\ matches.items # <<>>
    THEN <<Entry("INFO", "[SUCCESS] YARA rule matched!"), Entry("INFO", "[SUCCESS] matches")>>
    ELSE <<Entry("WARNING", "No matches found.")>>

----------------------------------------------------------------------------
(* One execution of YaraScannerCLI.run().                                  *)

Init ==
    /\ dirs \in SUBSET Candidates
    /\ args \in [rule : RuleArgs, file : {"target"}]
    /\ fsRule \in RuleFileStates
    /\ fsScan \in ScanFileStates
    /\ scanner = NoScanner
    /\ pc = "start"
    /\ calls = <<>>
    /\ log = <<>>
    /\ outcome = Running
    /\ lastCall = NoCall
    /\ prevCall = NoPrev
    /\ everCompiled = FALSE

(* A method call made from the try block of run(): on return run() goes on *)
(* to `next`; on an exception the matching except clause ends run().       *)
RunCall(op, r, next) ==
    /\ calls' = Append(calls, [op |-> op, exc |-> r.exc])
    /\ scanner' = r.self
    /\ lastCall' = Call(op, scanner, r)
    /\ prevCall' = Prev(lastCall)
    /\ everCompiled' = (everCompiled \/ (op = "compile_rule" /\ r.exc = NoExc))
    /\ IF r.exc = NoExc
       THEN /\ pc' = next
            /\ log' = log \o r.logs
            /\ outcome' = outcome
       ELSE /\ pc' = "done"
            /\ log' = log \o r.logs \o run_except(r.exc).logs
            /\ outcome' = run_except(r.exc).outcome
    /\ UNCHANGED <<dirs, args, fsRule, fsScan>>

RunStart ==
    /\ pc = "start"
    /\ scanner' = YaraScanner(get_rule_path(args.rule, dirs), args.file)
    /\ pc' = "validate"
    /\ UNCHANGED <<dirs, args, fsRule, fsScan, calls, log, outcome, lastCall, prevCall,
                   everCompiled>>

RunValidate ==
    /\ pc = "validate"
    /\ RunCall("validate_paths", validate_paths(scanner, fsRule, fsScan), "compile")

RunCompile ==
    /\ pc = "compile"
    /\ RunCall("compile_rule", compile_rule(scanner, fsRule), "scan")

RunScan ==
    /\ pc = "scan"
    /\ RunCall("scan_file", scan_file(scanner, fsScan), "report")

RunReport ==
    /\ pc = "report"
    /\ log' = log \o run_report(lastCall.ret)
    /\ outcome' = Returned
    /\ pc' = "done"
    /\ UNCHANGED <<dirs, args, fsRule, fsScan, scanner, calls, lastCall, prevCall,
                   everCompiled>>

Next == RunStart \/ RunValidate \/ RunCompile \/ RunScan \/ RunReport

Spec == Init /\ [][Next]_vars

----------------------------------------------------------------------------
(* A client of class YaraScanner: it constructs one scanner and calls its  *)
(* methods in any order; between calls the two files may be rewritten.     *)
(* lastCall and prevCall are the calls made since the last rewrite, so     *)
(* they were made against the files as they are now.                       *)

InitApi ==
    /\ dirs = {}
    /\ args = [rule |-> [abs |-> TRUE, stem |-> "rule", suffix |-> ".yar"], file |-> "target"]
    /\ fsRule \in RuleFileStates
    /\ fsScan \in ScanFileStates
    /\ scanner = YaraScanner(Path("", args.rule), args.file)
    /\ pc = "api"
    /\ calls = <<>>
    /\ log = <<>>
    /\ outcome = Running
    /\ lastCall = NoCall
    /\ prevCall = NoPrev
    /\ everCompiled = FALSE

ApiCall(op, r) ==
    /\ scanner' = r.self
    /\ lastCall' = Call(op, scanner, r)
    /\ prevCall' = Prev(lastCall)
    /\ log' = r.logs
    /\ everCompiled' = (everCompiled \/ (op = "compile_rule" /\ r.exc = NoExc))
    /\ UNCHANGED <<dirs, args, fsRule, fsScan, pc, calls, outcome>>

ApiValidate ==
    /\ pc = "api"
    /\ ApiCall("validate_paths", validate_paths(scanner, fsRule, fsScan))

ApiCompile ==
    /\ pc = "api"
    /\ ApiCall("compile_rule", compile_rule(scanner, fsRule))

ApiScan ==
    /\ pc = "api"
    /\ ApiCall("scan_file", scan_file(scanner, fsScan))

WriteRuleFile ==
    /\ pc = "api"
    /\ fsRule \in {File(c) : c \in RuleSources}
    /\ \E c \in RuleSources \ {fsRule.content} : fsRule' = File(c)
    /\ lastCall' = NoCall
    /\ prevCall' = NoPrev
    /\ UNCHANGED <<dirs, args, fsScan, scanner, pc, calls, log, outcome, everCompiled>>

WriteScanFile ==
    /\ pc = "api"
    /\ fsScan \in {File(b) : b \in Buffers}
    /\ \E b \in Buffers \ {fsScan.content} : fsScan' = File(b)
    /\ lastCall' = NoCall
    /\ prevCall' = NoPrev
    /\ UNCHANGED <<dirs, args, fsRule, scanner, pc, calls, log, outcome, everCompiled>>

NextApi == ApiValidate \/ ApiCompile \/ ApiScan \/ WriteRuleFile \/ WriteScanFile

SpecApi == InitApi /\ [][NextApi]_vars

----------------------------------------------------------------------------
(* Properties.                                                             *)

Logged(entries, e) == \E i \in DOMAIN entries : entries[i] = e
LoggedError(entries) == \E i \in DOMAIN entries : entries[i].level = "ERROR"

NoMatchReported == Logged(log, Entry("WARNING", "No matches found."))
MatchedReported == Logged(log, Entry("INFO", "[SUCCESS] YARA rule matched!"))
SomeStepFailed == \E i \in DOMAIN calls : calls[i].exc # NoExc
EmptyList == [kind |-> "list", items |-> <<>>]
RunOrder == <<"validate_paths", "compile_rule", "scan_file">>

(* C1: in run(), "No matches found" is reported only when validate_paths,  *)
(* compile_rule and scan_file all returned and scan_file returned an empty *)
(* list; a run in which a step raised ends with an error record or with an *)
(* exception leaving run(), and reports neither "No matches found" nor     *)
(* "YARA rule matched!".                                                   *)
C1_NoMatchOnlyAfterCleanScan ==
    /\ NoMatchReported =>
          /\ Len(calls) = 3
          /\ \A i \in 1..3 : calls[i].op = RunOrder[i] /\ calls[i].exc = NoExc
          /\ lastCall.op = "scan_file"
          /\ lastCall.ret = EmptyList
    /\ SomeStepFailed =>
          /\ pc = "done"
          /\ LoggedError(log) \/ outcome.status = "raised"
          /\ ~NoMatchReported
          /\ ~MatchedReported

(* C1 witness: run() ended because scan_file raised.                       *)
C1_Witness ==
    /\ pc = "done"
    /\ Len(calls) = 3
    /\ calls[3].exc.type = "yara.Error"
    /\ outcome.status = "raised"

ScannedEmptyBuffer ==
    /\ lastCall.op = "scan_file"
    /\ lastCall.before.compiled_rule # None
    /\ fsScan = File(<<>>)

(* C2 as stated: for every rule set, scanning an empty buffer succeeds     *)
(* with an empty result and without any error.                             *)
C2_EmptyBufferEmptyResult ==
    ScannedEmptyBuffer =>
        /\ lastCall.exc = NoExc
        /\ lastCall.ret = EmptyList
        /\ ~LoggedError(lastCall.logs)

(* C2 as amended: for every rule set, scanning an empty buffer succeeds    *)
(* without any error, and the result lists exactly the rules whose         *)
(* condition is true when no pattern has an occurrence, each with no       *)
(* occurrences; it is empty when the rule set has no such rule.            *)
C2_EmptyBufferZeroOccurrences ==
    ScannedEmptyBuffer =>
        /\ lastCall.exc = NoExc
        /\ ~LoggedError(lastCall.logs)
        /\ lastCall.ret.kind = "list"
        /\ LET rules == lastCall.before.compiled_rule.rules
               items == lastCall.ret.items
           IN  /\ \A i \in DOMAIN rules :
                     (\E j \in DOMAIN items : items[j].rule = rules[i].name)
                         <=> EvalCondition(rules[i].cond, {}) = "true"
               /\ \A j \in DOMAIN items :
                     /\ items[j].offsets = <<>>
                     /\ \E i \in DOMAIN rules : rules[i].name = items[j].rule
               /\ (\A i \in DOMAIN rules : EvalCondition(rules[i].cond, {}) # "true")
                     => items = <<>>

(* C2 witness: an empty buffer was scanned and a rule is listed.           *)
C2_Witness ==
    /\ ScannedEmptyBuffer
    /\ lastCall.ret.kind = "list"
    /\ lastCall.ret.items # <<>>

ScanReturned == lastCall.op = "scan_file" /\ lastCall.exc = NoExc

Listed(name) == \E j \in DOMAIN lastCall.ret.items : lastCall.ret.items[j].rule = name

(* C3: in the result of a scan, a rule is listed if and only if its        *)
(* condition evaluates to true on the scanned buffer; a rule whose         *)
(* condition is the literal true is listed whatever the buffer holds.      *)
C3_ListedIffConditionTrue ==
    ScanReturned =>
        LET rules == lastCall.before.compiled_rule.rules
        IN  \A i \in DOMAIN rules :
               /\ Listed(rules[i].name) <=>
                     EvalCondition(rules[i].cond, Context(rules[i], fsScan.content)) = "true"
               /\ rules[i].cond.op = "true" => Listed(rules[i].name)

(* C3 witness: a scan of a non-empty buffer lists the literal-true rule    *)
(* and leaves out a rule whose pattern does not occur.                     *)
C3_Witness ==
    /\ ScanReturned
    /\ fsScan.content # <<>>
    /\ lastCall.before.compiled_rule.rules = <<RuleCatalogue[1], RuleCatalogue[2]>>
    /\ Listed("always")
    /\ ~Listed("has_a")

(* C4: two scan_file calls in a row, with no file rewritten in between,    *)
(* end the same way with the same result, and a scan_file call leaves      *)
(* rule_path, file_to_scan and compiled_rule as they were.                 *)
C4_ScanIdempotent ==
    /\ (lastCall.op = "scan_file" /\ prevCall.op = "scan_file") =>
          /\ lastCall.exc = prevCall.exc
          /\ lastCall.ret = prevCall.ret
    /\ lastCall.op = "scan_file" =>
          /\ lastCall.after = lastCall.before
          /\ scanner = lastCall.before

(* C4 witness: two scans in a row, both listing a rule.                    *)
C4_Witness ==
    /\ lastCall.op = "scan_file"
    /\ prevCall.op = "scan_file"
    /\ lastCall.exc = NoExc
    /\ lastCall.ret.items # <<>>

CompileRaisedSyntaxError ==
    \E i \in DOMAIN calls :
        calls[i].op = "compile_rule" /\ calls[i].exc.type = "yara.SyntaxError"

(* C5: when compile_rule raises yara.SyntaxError inside run(), run() logs  *)
(* "An unexpected error occurred" and returns normally, without calling    *)
(* scan_file.                                                              *)
C5_SyntaxErrorHandled ==
    CompileRaisedSyntaxError =>
        /\ outcome = Returned
        /\ Logged(log, Entry("ERROR", "An unexpected error occurred"))
        /\ \A i \in DOMAIN calls : calls[i].op # "scan_file"

(* C6: run() calls validate_paths, compile_rule, scan_file in this order,  *)
(* each only after the earlier ones returned; scan_file is not called      *)
(* while compiled_rule is None, and compile_rule is not called when the    *)
(* rule file or the file to scan is missing.                               *)
C6_RunOrder ==
    /\ Len(calls) <= 3
    /\ \A i \in DOMAIN calls : calls[i].op = RunOrder[i]
    /\ \A i \in DOMAIN calls : i < Len(calls) => calls[i].exc = NoExc
    /\ lastCall.op = "scan_file" => lastCall.before.compiled_rule # None
    /\ Len(calls) >= 2 => isfile(fsRule) /\ isfile(fsScan)

(* C6 witness: all three methods were called and returned.                 *)
C6_Witness ==
    /\ pc = "report"
    /\ Len(calls) = 3
    /\ lastCall.ret.kind = "list"

ValidateRaised == Len(calls) >= 1 /\ calls[1].exc # NoExc

(* C7: validate_paths raises FileNotFoundError exactly when the rule path  *)
(* or the path of the file to scan is not a regular file; the rule path is *)
(* checked first; when it raises inside run(), run() logs the error and    *)
(* returns, with nothing compiled or scanned and compiled_rule still None. *)
C7_ValidatePaths ==
    /\ Len(calls) >= 1 =>
          /\ calls[1].op = "validate_paths"
          /\ calls[1].exc # NoExc <=> ~(isfile(fsRule) /\ isfile(fsScan))
          /\ calls[1].exc # NoExc => calls[1].exc.type = "FileNotFoundError"
          /\ ~isfile(fsRule) => calls[1].exc.msg = "Rule file not found"
          /\ (isfile(fsRule) /\ ~isfile(fsScan)) => calls[1].exc.msg = "File to scan not found"
    /\ ValidateRaised =>
          /\ pc = "done"
          /\ outcome = Returned
          /\ Len(calls) = 1
          /\ Logged(log, Entry("ERROR", calls[1].exc.msg))
          /\ scanner.compiled_rule = None
          /\ ~everCompiled

(* C7 witness: both files are missing and run() has ended.                 *)
C7_Witness ==
    /\ ValidateRaised
    /\ ~isfile(fsRule)
    /\ ~isfile(fsScan)
    /\ pc = "done"

CompileFailed == lastCall.op = "compile_rule" /\ lastCall.exc # NoExc

(* C8: a compile_rule call that fails logs an error, raises the exception  *)
(* the compiler raised and leaves compiled_rule as it was; compiled_rule   *)
(* is not None only after some compile_rule call has returned.             *)
C8_FailedCompileKeepsRules ==
    /\ CompileFailed =>
          /\ lastCall.exc = YaraCompile(fsRule).exc
          /\ LoggedError(lastCall.logs)
          /\ lastCall.after = lastCall.before
          /\ scanner = lastCall.before
    /\ scanner.compiled_rule # None => everCompiled

(* C8 witness: a compilation failed on a scanner that held compiled rules. *)
C8_Witness ==
    /\ CompileFailed
    /\ lastCall.before.compiled_rule # None
    /\ lastCall.exc.type = "yara.SyntaxError"

=============================================================================
